---- MODULE Spec2Model ----
(***************************************************************************)
(* The conversation-log compaction of gptme (gptme/clean_logs.py) and the  *)
(* slash-command dispatcher that drives it (gptme/commands.py).            *)
(*                                                                         *)
(* A text is a sequence of one-character strings, so that substring tests, *)
(* strip(), split() and slicing are computed as Python computes them.      *)
(* Python indices are kept as they are (0-based): the message at Python    *)
(* index k is messages[k + 1].                                             *)
(***************************************************************************)
EXTENDS Integers, Sequences, FiniteSets, TLC

(***************************************************************************)
(* String literals of the source.                                          *)
(***************************************************************************)
\* 'Ran command', the marker tested at clean_logs.py:68
sRanCommand == <<"R","a","n"," ","c","o","m","m","a","n","d">>
\* 'Ran command:', the separator of the split at clean_logs.py:70
sRanCommandColon == <<"R","a","n"," ","c","o","m","m","a","n","d",":">>
\* 'stdout', clean_logs.py:81
sStdout == <<"s","t","d","o","u","t">>
\* 'stderr', clean_logs.py:87
sStderr == <<"s","t","d","e","r","r">>
\* 'Error:', clean_logs.py:40
sErrorColon == <<"E","r","r","o","r",":">>
\* 'Successfully', clean_logs.py:42
sSuccessfully == <<"S","u","c","c","e","s","s","f","u","l","l","y">>
\* 'No output', clean_logs.py:44
sNoOutput == <<"N","o"," ","o","u","t","p","u","t">>
\* 'Executed command', clean_logs.py:46
sExecutedCommand == <<"E","x","e","c","u","t","e","d"," ","c","o","m","m","a","n","d">>
\* 'Command: ', clean_logs.py:75
sCommandPrefix == <<"C","o","m","m","a","n","d",":"," ">>
\* 'Output: ', clean_logs.py:85
sOutputPrefix == <<"O","u","t","p","u","t",":"," ">>
\* 'Error: ', clean_logs.py:88
sErrorPrefix == <<"E","r","r","o","r",":"," ">>
\* ' | ', clean_logs.py:95
sSep == <<" ","|"," ">>
\* '... (truncated)', clean_logs.py:84
sTruncated == <<".",".","."," ","(","t","r","u","n","c","a","t","e","d",")">>
\* 'Cleaned conversation log. Tokens saved: ', clean_logs.py:131
sCleanedPrefix == <<"C","l","e","a","n","e","d"," ","c","o","n","v","e","r","s","a","t","i","o","n"," ","l","o","g","."," ","T","o","k","e","n","s"," ","s","a","v","e","d",":"," ">>
\* 'Cleaning current conversation log...', commands.py:144
sCleaningCurrent == <<"C","l","e","a","n","i","n","g"," ","c","u","r","r","e","n","t"," ","c","o","n","v","e","r","s","a","t","i","o","n"," ","l","o","g",".",".",".">>
\* 'Cleaning all conversation logs...', commands.py:141
sCleaningAll == <<"C","l","e","a","n","i","n","g"," ","a","l","l"," ","c","o","n","v","e","r","s","a","t","i","o","n"," ","l","o","g","s",".",".",".">>

(***************************************************************************)
(* Literals of the command dispatcher.                                     *)
(***************************************************************************)
nUndo == <<"u","n","d","o">>
nLog == <<"l","o","g">>
nTools == <<"t","o","o","l","s">>
nEdit == <<"e","d","i","t">>
nRename == <<"r","e","n","a","m","e">>
nFork == <<"f","o","r","k">>
nSummarize == <<"s","u","m","m","a","r","i","z","e">>
nReplay == <<"r","e","p","l","a","y">>
nImpersonate == <<"i","m","p","e","r","s","o","n","a","t","e">>
nTokens == <<"t","o","k","e","n","s">>
nExport == <<"e","x","p","o","r","t">>
nHelp == <<"h","e","l","p">>
nExit == <<"e","x","i","t">>
nReload == <<"r","e","l","o","a","d">>
nCleanlogs == <<"c","l","e","a","n","l","o","g","s">>
nProfile == <<"p","r","o","f","i","l","e">>

\* Actions / action_descriptions: the fixed command names
COMMANDS ==
    {nUndo, nLog, nTools, nEdit, nRename, nFork, nSummarize, nReplay,
     nImpersonate, nTokens, nExport, nHelp, nExit, nReload, nCleanlogs, nProfile}

sAllFlag == <<"-","-","a","l","l">>
sHiddenFlag == <<"-","-","h","i","d","d","e","n">>
sSlashHelp == <<"/","h","e","l","p">>
sAuto == <<"a","u","t","o">>
sNoProfile == <<"N","o"," ","p","r","o","f","i","l","e"," ","d","a","t","a"," ","f","o","u","n","d","."," ","R","u","n"," ","g","p","t","m","e"," ","w","i","t","h"," ","-","-","p","r","o","f","i","l","e"," ","f","l","a","g"," ","f","i","r","s","t",".">>
sProfileReport == <<"\n","=","=","="," ","T","o","p"," ","2","0"," ","F","u","n","c","t","i","o","n","s"," ","b","y"," ","C","u","m","u","l","a","t","i","v","e"," ","T","i","m","e"," ","=","=","=","\n">>
sProfileError == <<"E","r","r","o","r"," ","a","n","a","l","y","z","i","n","g"," ","p","r","o","f","i","l","e"," ","d","a","t","a",":"," ">>
sReloading == <<"R","e","l","o","a","d","i","n","g"," ","m","o","d","u","l","e","s",".",".",".">>
sReloadError == <<"E","r","r","o","r"," ","r","e","l","o","a","d","i","n","g"," ">>
sReloaded == <<"S","u","c","c","e","s","s","f","u","l","l","y"," ","r","e","l","o","a","d","e","d"," ","a","l","l"," ","m","o","d","u","l","e","s">>
sReinitError == <<"E","r","r","o","r"," ","d","u","r","i","n","g"," ","r","e","i","n","i","t","i","a","l","i","z","a","t","i","o","n",":"," ">>
sRecovered == <<"R","e","c","o","v","e","r","e","d"," ","w","i","t","h"," ","d","e","f","a","u","l","t"," ","s","e","t","t","i","n","g","s">>
sRecoverFailed == <<"F","a","i","l","e","d"," ","t","o"," ","r","e","c","o","v","e","r",":"," ">>
sInterrupted == <<"I","n","t","e","r","r","u","p","t","e","d">>

(***************************************************************************)
(* Python string operations on texts.                                      *)
(***************************************************************************)
\* the characters str.strip() removes
Whitespace == {" ", "\n", "\t"}

\* the smallest 1-based position at which p occurs in s, 0 when it does not
Find(s, p) ==
    LET hits == {k \in 1..(Len(s) - Len(p) + 1) : SubSeq(s, k, k + Len(p) - 1) = p}
    IN  IF hits = {} THEN 0 ELSE CHOOSE k \in hits : \A h \in hits : k <= h

\* p in s
Contains(s, p) == Find(s, p) # 0

\* s.strip()
Strip(s) ==
    LET ns == {k \in 1..Len(s) : s[k] \notin Whitespace}
    IN  IF ns = {} THEN <<>>
        ELSE SubSeq(s, CHOOSE k \in ns : \A h \in ns : k <= h,
                       CHOOSE k \in ns : \A h \in ns : h <= k)

\* s.split(sep)[1], defined when sep occurs in s: the text between the first
\* occurrence of sep and the next one (or the end of s)
SplitSecond(s, sep) ==
    LET rest == SubSeq(s, Find(s, sep) + Len(sep), Len(s))
        q    == Find(rest, sep)
    IN  IF q = 0 THEN rest ELSE SubSeq(rest, 1, q - 1)

\* s[:n]
Prefix(s, n) == SubSeq(s, 1, IF n < Len(s) THEN n ELSE Len(s))

\* sep.join(parts)
RECURSIVE Join(_, _)
Join(parts, sep) ==
    IF parts = <<>> THEN <<>>
    ELSE IF Len(parts) = 1 THEN parts[1]
    ELSE parts[1] \o sep \o Join(Tail(parts), sep)

DigitChars == <<"0", "1", "2", "3", "4", "5", "6", "7", "8", "9">>

\* str(n) of a natural number
RECURSIVE NatStr(_)
NatStr(n) ==
    IF n < 10 THEN <<DigitChars[n + 1]>>
    ELSE NatStr(n \div 10) \o <<DigitChars[(n % 10) + 1]>>

\* f"{n}" of an integer
IntStr(n) == IF n < 0 THEN <<"-">> \o NatStr(-n) ELSE NatStr(n)

\* f"{(saved/original)*100:.1f}" for original > 0: one decimal, the tenths
\* rounded to nearest (ties to even) on the magnitude, the sign kept
PercentStr(saved, original) ==
    LET mag    == IF saved < 0 THEN -saved ELSE saved
        q      == (mag * 1000) \div original
        r      == (mag * 1000) % original
        tenths == IF 2 * r > original \/ (2 * r = original /\ q % 2 = 1)
                  THEN q + 1 ELSE q
    IN  (IF saved < 0 THEN <<"-">> ELSE <<>>)
        \o NatStr(tenths \div 10) \o <<".">> \o <<DigitChars[(tenths % 10) + 1]>>

(***************************************************************************)
(* Messages.                                                               *)
(***************************************************************************)
Roles == {"system", "user", "assistant"}

\* Message(role, content, hide=..., files=..., quiet=..., pinned=...)
Message(role, content, hide, files, quiet, pinned) ==
    [role |-> role, content |-> content, hide |-> hide, files |-> files,
     quiet |-> quiet, pinned |-> pinned]

\* Message(role, content): every flag unset, no files
Msg(role, content) == Message(role, content, FALSE, <<>>, FALSE, FALSE)

\* len_tokens(messages): the tokenizer collaborator; every character of a
\* content counts as one token, so a log is token-free exactly when every
\* content is empty
RECURSIVE len_tokens(_)
len_tokens(msgs) ==
    IF msgs = <<>> THEN 0 ELSE Len(msgs[1].content) + len_tokens(Tail(msgs))

(***************************************************************************)
(* clean_log: the compaction of one log.                                   *)
(***************************************************************************)
\* len(msg.content) < 50 in should_keep_system_message
ShortAckLen == 50

\* len(output) > 500 and output[:500]
TruncateAt == 500

\* a filter that keeps every system message
should_keep_everything(msg) == TRUE

\* a retention filter that does not look at hide and pinned
should_keep_ignoring_flags(msg) ==
    IF Contains(msg.content, sErrorColon) THEN TRUE
    ELSE IF Contains(msg.content, sSuccessfully) THEN FALSE
    ELSE IF Contains(msg.content, sNoOutput) THEN FALSE
    ELSE IF Contains(msg.content, sExecutedCommand) /\ Len(msg.content) < ShortAckLen
         THEN FALSE
    ELSE TRUE

\* should_keep_system_message(msg)
should_keep_system_message(msg) ==
    IF msg.hide \/ msg.pinned THEN TRUE
    ELSE IF Contains(msg.content, sErrorColon) THEN TRUE
    ELSE IF Contains(msg.content, sSuccessfully) THEN FALSE
    ELSE IF Contains(msg.content, sNoOutput) THEN FALSE
    ELSE IF Contains(msg.content, sExecutedCommand) /\ Len(msg.content) < ShortAckLen
         THEN FALSE
    ELSE TRUE

\* entry_key = (msg.role, msg.content.strip())
entry_key(msg) == <<msg.role, Strip(msg.content)>>

\* command = msg.content.split('Ran command:')[1].strip()
command_of(content) == Strip(SplitSecond(content, sRanCommandColon))

\* the Output segment cut from the content as it is, not from the trimmed one
OutputSegmentUntrimmed(content) ==
    sOutputPrefix \o (IF Len(content) > TruncateAt
                      THEN Prefix(content, TruncateAt) \o sTruncated
                      ELSE content)

\* the segment a stdout-bearing message contributes
OutputSegment(content) ==
    LET output == Strip(content)
    IN  sOutputPrefix \o (IF Len(output) > TruncateAt
                          THEN Prefix(output, TruncateAt) \o sTruncated
                          ELSE output)

\* the segment a stderr-bearing message contributes
ErrorSegment(content) == sErrorPrefix \o Strip(content)

\* the look-ahead loop from Python index j: where it stops, and the segments
RECURSIVE LookAhead(_, _, _)
LookAhead(msgs, j, combined_content) ==
    IF ~(j < Len(msgs)) THEN [j |-> j, combined_content |-> combined_content]
    ELSE LET next_msg == msgs[j + 1]
         IN  IF next_msg.role # "system"
             THEN [j |-> j, combined_content |-> combined_content]
             ELSE IF Contains(next_msg.content, sStdout)
             THEN LookAhead(msgs, j + 1,
                            Append(combined_content, OutputSegment(next_msg.content)))
             ELSE IF Contains(next_msg.content, sStderr)
             THEN LookAhead(msgs, j + 1,
                            Append(combined_content, ErrorSegment(next_msg.content)))
             ELSE [j |-> j, combined_content |-> combined_content]

\* a merged message built with the default flags and no files
cleaned_msg_default_flags(msg, combined_content) ==
    Msg("system", Join(combined_content, sSep))

\* the message that replaces a command message and what the scan absorbed
cleaned_msg(msg, combined_content) ==
    Message("system", Join(combined_content, sSep),
            msg.hide, msg.files, msg.quiet, msg.pinned)

\* i = j - 1 after a merge (the loop's i += 1 follows)
SkipTo(j) == j - 1

\* the first message put through the retention filter like the others
KeepsFirstFiltered(msgs) ==
    msgs # <<>> /\ msgs[1].role = "system" /\ should_keep_system_message(msgs[1])

\* the first message is kept when it is a system message
KeepsFirst(msgs) == msgs # <<>> /\ msgs[1].role = "system"

\* a loop that starts at the first message
LoopStartAtFirst == 1 - 1

\* i = 1: the loop skips the first message
LoopStart == 1

\* stats[key] += 1
Bump(st, key) == [st EXCEPT ![key] = @ + 1]

\* where an entry of cleaned_entries comes from: the Python index of the
\* message appended as it is, or of the command message a merge replaces
Origin(idx, merged) == [idx |-> idx, merged |-> merged]

\* the locals of clean_log as one record
Locals(cleaned, org, seen, st, idx, e) ==
    [cleaned_entries |-> cleaned, origin |-> org, seen_entries |-> seen,
     stats |-> st, i |-> idx, exc |-> e]

\* one iteration of the while loop on the message at Python index idx; exc
\* names the exception the iteration raises ("" when none)
Iteration(msgs, cleaned, org, seen, st, idx) ==
    LET msg == msgs[idx + 1]
    IN  IF msg.role \in {"user", "assistant"}
        THEN IF entry_key(msg) \notin seen
             THEN Locals(Append(cleaned, msg), Append(org, Origin(idx, FALSE)),
                         seen \cup {entry_key(msg)}, Bump(st, msg.role), idx + 1, "")
             ELSE Locals(cleaned, org, seen, Bump(st, "duplicates"), idx + 1, "")
        ELSE IF msg.role = "system" /\ should_keep_system_message(msg)
        THEN IF Contains(msg.content, sRanCommand)
             THEN IF ~Contains(msg.content, sRanCommandColon)
                  THEN Locals(cleaned, org, seen, st, idx, "IndexError")
                  ELSE LET command_key == <<"system", command_of(msg.content)>>
                           scan == LookAhead(msgs, idx + 1,
                                     <<sCommandPrefix \o command_of(msg.content)>>)
                       IN  IF command_key \notin seen
                           THEN Locals(Append(cleaned,
                                              cleaned_msg(msg, scan.combined_content)),
                                       Append(org, Origin(idx, TRUE)),
                                       seen \cup {command_key}, Bump(st, "system"),
                                       SkipTo(scan.j) + 1, "")
                           ELSE Locals(cleaned, org, seen, Bump(st, "duplicates"),
                                       idx + 1, "")
             ELSE Locals(Append(cleaned, msg), Append(org, Origin(idx, FALSE)),
                         seen, Bump(st, "system"), idx + 1, "")
        ELSE Locals(cleaned, org, seen, st, idx + 1, "")

\* the message clean_log yields once the log is replaced
Announcement(tokens_saved, original) ==
    Msg("system", sCleanedPrefix \o IntStr(tokens_saved) \o <<" ", "(">>
                  \o PercentStr(tokens_saved, original) \o <<"%", ")">>)

(***************************************************************************)
(* Bounds and the logs the checks start from.                              *)
(***************************************************************************)
\* the number of calls (commands, clean_all_logs) made in one behaviour
MaxCalls == 2

\* the number of commands dispatched in one behaviour
MaxCmds == 1

\* the longest initial log of Spec
MaxLenCmd == 2

\* the longest initial log of SpecClean
MaxLen == 4

sInitText == <<"i","n","i","t">>
sHi == <<"h","i">>
sHiPadded == <<" ","h","i","\n">>
sRanEchoHi == <<"R","a","n"," ","c","o","m","m","a","n","d",":"," ","e","c","h","o"," ","h","i">>
sStdoutHi == <<"s","t","d","o","u","t",":"," ","h","i">>
sSuccessfullyExecuted == <<"S","u","c","c","e","s","s","f","u","l","l","y"," ","e","x","e","c","u","t","e","d">>
sRanA == <<"R","a","n"," ","c","o","m","m","a","n","d",":"," ","a">>
sRanB == <<"R","a","n"," ","c","o","m","m","a","n","d",":"," ","b">>
sStdoutRanLs == <<"s","t","d","o","u","t"," ","R","a","n"," ","c","o","m","m","a","n","d",":"," ","l","s">>
sEchoHiOutHi == <<"C","o","m","m","a","n","d",":"," ","e","c","h","o"," ","h","i"," ","|"," ","O","u","t","p","u","t",":"," ","h","i">>
sEchoHiOutStdoutHi == <<"C","o","m","m","a","n","d",":"," ","e","c","h","o"," ","h","i"," ","|"," ","O","u","t","p","u","t",":"," ","s","t","d","o","u","t",":"," ","h","i">>

\* the longest initial log of SpecIdem
MaxLenIdem == 6

\* messages of the logs SpecIdem starts from: commands whose output quotes
\* another command
IdemPalette ==
    { Msg("system", sInitText), Msg("system", sRanA), Msg("system", sRanB),
      Msg("system", sStdoutRanLs) }

\* the longest initial log of SpecTrunc
MaxLenTrunc == 3

\* n characters of filler
Fill(n) == [k \in 1..n |-> "x"]

\* messages of the logs SpecTrunc starts from: outputs around 500 characters,
\* with and without surrounding whitespace
TruncPalette ==
    { Msg("system", sRanA),
      Msg("system", sStdout \o Fill(494)),
      Msg("system", sStdout \o Fill(495)),
      Msg("system", <<" ">> \o sStdout \o Fill(495)),
      Msg("system", sStdout \o Fill(494) \o <<"\n">>) }

\* the longest initial log of SpecFilter
MaxLenFilter == 3

sErrorSuccessfully == <<"E","r","r","o","r",":"," ","S","u","c","c","e","s","s","f","u","l","l","y">>

\* messages of the logs SpecFilter starts from: one for each way through the
\* retention filter, acknowledgments of 49 and of 50 characters, a command
\* message, an output message, a message with the command marker without
\* its colon and a plain one
FilterPalette ==
    { Msg("system", sSuccessfullyExecuted),
      Msg("system", sErrorSuccessfully),
      Msg("system", sNoOutput),
      Message("system", sNoOutput, FALSE, <<>>, FALSE, TRUE),
      Message("system", sSuccessfullyExecuted, TRUE, <<>>, FALSE, FALSE),
      Msg("system", sExecutedCommand \o Fill(33)),
      Msg("system", sExecutedCommand \o Fill(34)),
      Msg("system", sRanA),
      Msg("system", sStdoutHi),
      Msg("system", sRanCommand),
      Msg("system", sInitText) }

\* what the user types: every command, with and without arguments, a tool
\* invocation, an unknown name and a plain message
Inputs ==
    { <<"/","u","n","d","o">>,
      <<"/","u","n","d","o"," ","2">>,
      <<"/","u","n","d","o"," ","x">>,
      <<"/","u","n","d","o"," ","0">>,
      <<"/","u","n","d","o"," ","sup2">>,
      <<"/","l","o","g">>,
      <<"/","l","o","g"," ","-","-","h","i","d","d","e","n">>,
      <<"/","t","o","o","l","s">>,
      <<"/","t","o","k","e","n","s">>,
      <<"/","e","d","i","t">>,
      <<"/","r","e","n","a","m","e"," ","n","e","w">>,
      <<"/","r","e","n","a","m","e"," ","a","u","t","o">>,
      <<"/","r","e","n","a","m","e">>,
      <<"/","f","o","r","k"," ","n","e","w">>,
      <<"/","s","u","m","m","a","r","i","z","e">>,
      <<"/","r","e","p","l","a","y">>,
      <<"/","i","m","p","e","r","s","o","n","a","t","e"," ","h","i">>,
      <<"/","e","x","p","o","r","t">>,
      <<"/","h","e","l","p">>,
      <<"/","h","e","l","p"," ","m","e">>,
      <<"/","e","x","i","t">>,
      <<"/","r","e","l","o","a","d">>,
      <<"/","c","l","e","a","n","l","o","g","s">>,
      <<"/","c","l","e","a","n","l","o","g","s"," ","-","-","a","l","l">>,
      <<"/","p","r","o","f","i","l","e">>,
      <<"/","s","h"," ","l","s">>,
      <<"/","b","o","g","u","s">>,
      <<"h","i">> }

\* the names the user may type at an input() prompt
TypedNames == { <<>>, <<"a","u","t","o">>, <<"n","e","w">> }

\* the langtags of the loaded tools
LoadedTools == { <<"s","h">> }

\* the name the naming collaborator generates
sGenerated == <<"g","e","n","e","r","a","t","e","d","-","n","a","m","e">>

\* the name the conversation starts with
sInitialName == <<"c","o","n","v">>

\* messages of the logs Spec starts from
CmdPalette ==
    { Msg("system", sInitText), Msg("user", sHi), Msg("assistant", sHi),
      Msg("system", sRanEchoHi), Msg("system", sStdoutHi),
      Msg("system", sRanCommand) }

\* messages of the logs SpecClean starts from
CleanPalette ==
    { Msg("system", sInitText),
      Msg("user", sHi),
      Message("user", sHiPadded, FALSE, <<>>, FALSE, TRUE),
      Msg("assistant", sHi),
      Msg("system", sRanEchoHi),
      Message("system", sRanEchoHi, TRUE, <<"a.png">>, TRUE, FALSE),
      Msg("system", sStdoutHi),
      Msg("system", sSuccessfullyExecuted) }

\* the log of the end-to-end scenario
ScenarioLog ==
    << Msg("system", sInitText), Msg("user", sHi), Msg("user", sHi),
       Msg("system", sRanEchoHi), Msg("system", sStdoutHi),
       Msg("system", sSuccessfullyExecuted) >>

(***************************************************************************)
(* The Log Store (gptme/logmanager.py), by its contract: every operation   *)
(* acts on the messages in memory and on the persisted file alike.         *)
(***************************************************************************)
\* manager.append(msg)
LogAppend(log, msg) == Append(log, msg)

\* manager.undo(n): the last n messages removed, all of them when n exceeds
\* the length
LogUndo(log, n) == SubSeq(log, 1, IF n < Len(log) THEN Len(log) - n ELSE 0)

\* one entry of events: an operation, its count and its flag
Ev(op, n, flag) == [op |-> op, n |-> n, flag |-> flag]

(***************************************************************************)
(* handle_cmd: the parse of a command text.                                *)
(***************************************************************************)
\* cmd.lstrip("/")
RECURSIVE LStripSlash(_)
LStripSlash(s) ==
    IF s # <<>> /\ s[1] = "/" THEN LStripSlash(Tail(s)) ELSE s

\* re.split(r"[\n\s]", s): a cut at every whitespace character
RECURSIVE SplitWhitespace(_)
SplitWhitespace(s) ==
    LET ws == {k \in 1..Len(s) : s[k] \in Whitespace}
    IN  IF ws = {} THEN <<s>>
        ELSE LET k == CHOOSE x \in ws : \A y \in ws : x <= y
             IN  <<SubSeq(s, 1, k - 1)>> \o SplitWhitespace(SubSeq(s, k + 1, Len(s)))

\* name, *args = re.split(...): the name
cmd_name(text) == SplitWhitespace(LStripSlash(text))[1]

\* name, *args = re.split(...): the args
cmd_args(text) == Tail(SplitWhitespace(LStripSlash(text)))

\* full_args = cmd.split(" ", 1)[1] if " " in cmd else ""
full_args(text) ==
    LET c == LStripSlash(text)
    IN  IF Contains(c, <<" ">>) THEN SubSeq(c, Find(c, <<" ">>) + 1, Len(c)) ELSE <<>>

\* x in args
InArgs(x, args) == \E k \in 1..Len(args) : args[k] = x

\* the characters of the inputs that str.isdigit() accepts and int() rejects:
\* U+00B2 SUPERSCRIPT TWO, written by its name
DigitNotDecimal == {"sup2"}

\* s is made of the decimal digits int() reads
IsDecimal(s) ==
    s # <<>> /\ \A k \in 1..Len(s) : \E d \in 1..10 : DigitChars[d] = s[k]

\* s.isdigit(): not empty, and every character is a digit, decimal or not
IsDigit(s) ==
    s # <<>> /\ \A k \in 1..Len(s) :
                  (\E d \in 1..10 : DigitChars[d] = s[k]) \/ s[k] \in DigitNotDecimal

\* int(s) for a text of decimal digits
RECURSIVE ParseInt(_)
ParseInt(s) ==
    IF s = <<>> THEN 0
    ELSE 10 * ParseInt(SubSeq(s, 1, Len(s) - 1))
         + ((CHOOSE d \in 1..10 : DigitChars[d] = s[Len(s)]) - 1)

\* n = int(args[0]) if args and args[0].isdigit() else 1, where int succeeds
undo_count(args) == IF args # <<>> /\ IsDigit(args[1]) THEN ParseInt(args[1]) ELSE 1

\* int(args[0]) is evaluated and raises ValueError
undo_int_raises(args) == args # <<>> /\ IsDigit(args[1]) /\ ~IsDecimal(args[1])

(***************************************************************************)
(* State.                                                                  *)
(***************************************************************************)
VARIABLES
    messages,         \* manager.log.messages
    logfile,          \* the persisted conversation.jsonl, as a message sequence
    backup,           \* conversation.backup.jsonl: <<>> or <<its content>>
    pc,               \* where the running call stands ("idle": none running)
    caller,           \* who consumes the generator: "execute_cmd", "clean_all_logs"
    yielded,          \* the message a generator has yielded: <<>> or <<msg>>
    outcome,          \* how the last call ended: "none", "returned", "raised", "exited"
    exc,              \* the exception of a call that raised
    calls,            \* the number of calls made so far
    cleaned_entries,  \* clean_log's cleaned_entries
    origin,           \* for each entry of cleaned_entries, where it comes from
    seen_entries,     \* clean_log's seen_entries
    stats,            \* clean_log's stats
    i,                \* clean_log's i (a Python index)
    original_tokens,  \* clean_log's original_tokens
    edited,           \* the last sequence given to manager.edit: <<>> or <<seq>>
    events,           \* the Log Store, file and collaborator operations, in order
    cmd,              \* the text execute_cmd was given
    pre,              \* the log as it was before that text was appended to it
    branch,           \* the case of handle_cmd's match that ran
    conv,             \* the conversation's identity
    replayed          \* the Python indices of the messages /replay executed

vars == <<messages, logfile, backup, pc, caller, yielded, outcome, exc, calls,
          cleaned_entries, origin, seen_entries, stats, i, original_tokens,
          edited, events, cmd, pre, branch, conv, replayed>>

cleanVars == <<cleaned_entries, origin, seen_entries, stats, i, original_tokens>>

cmdVars == <<cmd, pre, branch, conv, replayed>>

\* stats = {"user": 0, "assistant": 0, "system": 0, "duplicates": 0}
ZeroStats == [user |-> 0, assistant |-> 0, system |-> 0, duplicates |-> 0]

\* every sequence over S of length at most n
SeqsUpTo(S, n) == UNION {[1..k -> S] : k \in 0..n}

\* the state once a LogManager holds one of the given logs and nothing ran
InitWith(logs) ==
    /\ messages \in logs
    /\ logfile = messages
    /\ backup = <<>>
    /\ pc = "idle"
    /\ caller = "none"
    /\ yielded = <<>>
    /\ outcome = "none"
    /\ exc = ""
    /\ calls = 0
    /\ cleaned_entries = <<>>
    /\ origin = <<>>
    /\ seen_entries = {}
    /\ stats = ZeroStats
    /\ i = 0
    /\ original_tokens = 0
    /\ edited = <<>>
    /\ events = <<>>
    /\ cmd = <<>>
    /\ pre = <<>>
    /\ branch = "none"
    /\ conv = [name |-> sInitialName, keep_date |-> FALSE]
    /\ replayed = <<>>

\* an exception leaves the running call: nothing in execute_cmd, handle_cmd,
\* clean_log or clean_all_logs catches it
Raise(e) ==
    /\ pc' = "idle"
    /\ outcome' = "raised"
    /\ exc' = e

(***************************************************************************)
(* clean_log(manager), a generator.                                        *)
(***************************************************************************)
\* a copy that leaves the backup file empty
copy_nothing(file) == <<<<>>>>

\* shutil.copy(manager.logfile, backup_file): the backup file's content
copy_file(file) == <<file>>

\* the backup, the token count and the first message, up to the loop
CleanLogBegin ==
    /\ pc = "clean_log"
    /\ yielded = <<>>
    /\ backup' = copy_file(logfile)
    /\ original_tokens' = len_tokens(messages)
    /\ cleaned_entries' = IF KeepsFirst(messages) THEN <<messages[1]>> ELSE <<>>
    /\ origin' = IF KeepsFirst(messages) THEN <<Origin(0, FALSE)>> ELSE <<>>
    /\ seen_entries' = {}
    /\ stats' = IF KeepsFirst(messages) THEN Bump(ZeroStats, "system") ELSE ZeroStats
    /\ i' = LoopStart
    /\ pc' = "clean_loop"
    /\ events' = Append(events, Ev("backup", 0, FALSE))
    /\ UNCHANGED <<messages, logfile, caller, yielded, outcome, exc, calls, edited, cmdVars>>

\* one iteration of the while loop
CleanLogStep ==
    /\ pc = "clean_loop"
    /\ i < Len(messages)
    /\ LET r == Iteration(messages, cleaned_entries, origin, seen_entries, stats, i)
       IN  /\ cleaned_entries' = r.cleaned_entries
           /\ origin' = r.origin
           /\ seen_entries' = r.seen_entries
           /\ stats' = r.stats
           /\ i' = r.i
           /\ IF r.exc # "" THEN Raise(r.exc)
              ELSE UNCHANGED <<pc, outcome, exc>>
    /\ UNCHANGED <<messages, logfile, backup, caller, yielded, calls,
                   original_tokens, edited, events, cmdVars>>

\* after the loop: manager.edit, the token counts and the yield
CleanLogFinish ==
    /\ pc = "clean_loop"
    /\ ~(i < Len(messages))
    /\ messages' = cleaned_entries
    /\ logfile' = cleaned_entries
    /\ edited' = <<cleaned_entries>>
    /\ events' = Append(events, Ev("edit", 0, FALSE))
    /\ IF original_tokens = 0
       THEN Raise("ZeroDivisionError") /\ UNCHANGED yielded
       ELSE /\ yielded' = <<Announcement(original_tokens - len_tokens(cleaned_entries),
                                         original_tokens)>>
            /\ pc' = "clean_end"
            /\ UNCHANGED <<outcome, exc>>
    /\ UNCHANGED <<backup, caller, calls, cleanVars, cmdVars>>

(***************************************************************************)
(* clean_all_logs(logs_dir), over a directory that holds this conversation.*)
(***************************************************************************)
\* LogManager.load(directory) and the call of clean_log
CleanAllLogsLoad ==
    /\ pc = "idle"
    /\ outcome \in {"none", "returned"}
    /\ calls < MaxCalls
    /\ calls' = calls + 1
    /\ messages' = logfile
    /\ caller' = "clean_all_logs"
    /\ pc' = "clean_log"
    /\ outcome' = "none"
    /\ UNCHANGED <<logfile, backup, yielded, exc, cleanVars, edited, events, cmdVars>>

\* for msg in clean_log(manager): pass
CleanAllLogsConsume ==
    /\ caller = "clean_all_logs"
    /\ yielded # <<>>
    /\ yielded' = <<>>
    /\ UNCHANGED <<messages, logfile, backup, pc, caller, outcome, exc, calls,
                   cleanVars, edited, events, cmdVars>>

\* the generator is exhausted: the totals, and the return
CleanAllLogsReturn ==
    /\ caller = "clean_all_logs"
    /\ pc = "clean_end"
    /\ yielded = <<>>
    /\ pc' = "idle"
    /\ outcome' = "returned"
    /\ UNCHANGED <<messages, logfile, backup, caller, yielded, exc, calls,
                   cleanVars, edited, events, cmdVars>>

NextClean ==
    \/ CleanAllLogsLoad
    \/ CleanLogBegin
    \/ CleanLogStep
    \/ CleanLogFinish
    \/ CleanAllLogsConsume
    \/ CleanAllLogsReturn

(***************************************************************************)
(* execute_cmd and handle_cmd.  handle_cmd is a generator: it runs up to   *)
(* its next yield, execute_cmd appends the yielded message to the log, and *)
(* only then does the generator go on.                                     *)
(***************************************************************************)
\* what the handlers of handle_cmd leave alone
handlerFrame == <<backup, caller, calls, cleanVars, edited, cmd, pre>>

\* the log in memory and on disk after Log Store operations, and their record
Store(log, evs) ==
    /\ messages' = log
    /\ logfile' = log
    /\ events' = events \o evs

\* the generator goes on at the given place, having yielded y (<<>>: nothing)
GoOn(place, y) ==
    /\ pc' = place
    /\ yielded' = y
    /\ UNCHANGED <<outcome, exc>>

\* the generator raises
Fail(e) ==
    /\ Raise(e)
    /\ yielded' = <<>>

\* handle_cmd has matched the given name
Handling(n) == pc = "handle" /\ cmd_name(cmd) = n

\* manager.undo(1, quiet=True), the first statement of most cases
QuietUndo == Ev("undo", 1, TRUE)

\* the chat loop appends what the user typed and calls execute_cmd, which
\* hands a text that starts with "/" to handle_cmd and returns False otherwise
Dispatch ==
    /\ pc = "idle"
    /\ outcome \in {"none", "returned"}
    /\ calls < MaxCmds
    /\ \E text \in Inputs :
          /\ cmd' = text
          /\ Store(LogAppend(messages, Msg("user", text)), <<Ev("append", 0, FALSE)>>)
          /\ IF SubSeq(text, 1, 1) = <<"/">>
             THEN pc' = "handle" /\ outcome' = "none" /\ branch' = "none"
             ELSE pc' = "idle" /\ outcome' = "returned" /\ branch' = "not_command"
    /\ calls' = calls + 1
    /\ pre' = messages
    /\ caller' = "execute_cmd"
    /\ replayed' = <<>>
    /\ UNCHANGED <<backup, yielded, exc, cleanVars, edited, conv>>

\* case "cleanlogs" up to its first yield
CmdCleanlogs ==
    /\ Handling(nCleanlogs)
    /\ branch' = "cleanlogs"
    /\ Store(LogUndo(messages, 1), <<QuietUndo>>)
    /\ IF InArgs(sAllFlag, cmd_args(cmd))
       THEN GoOn("clean_all_logs", <<Msg("system", sCleaningAll)>>)
       ELSE GoOn("clean_log", <<Msg("system", sCleaningCurrent)>>)
    /\ UNCHANGED <<handlerFrame, conv, replayed>>

\* yield from clean_all_logs(get_logs_dir()): commands.py neither defines nor
\* imports get_logs_dir, so evaluating the argument raises NameError
CmdCleanlogsAll ==
    /\ pc = "clean_all_logs"
    /\ caller = "execute_cmd"
    /\ yielded = <<>>
    /\ Fail("NameError")
    /\ UNCHANGED <<messages, logfile, events, handlerFrame, branch, conv, replayed>>

\* case "log"
CmdLog ==
    /\ Handling(nLog)
    /\ branch' = "log"
    /\ Store(LogUndo(messages, 1), <<QuietUndo>>)
    /\ GoOn("handle_end", <<>>)
    /\ UNCHANGED <<handlerFrame, conv, replayed>>

\* case "tokens"
CmdTokens ==
    /\ Handling(nTokens)
    /\ branch' = "tokens"
    /\ Store(LogUndo(messages, 1), <<QuietUndo>>)
    /\ GoOn("handle_end", <<>>)
    /\ UNCHANGED <<handlerFrame, conv, replayed>>

\* case "tools": the import of loaded_tools in case "reload" makes the name
\* local to handle_cmd, so reading it here raises UnboundLocalError
CmdTools ==
    /\ Handling(nTools)
    /\ branch' = "tools"
    /\ Store(LogUndo(messages, 1), <<QuietUndo>>)
    /\ Fail("UnboundLocalError")
    /\ UNCHANGED <<handlerFrame, conv, replayed>>

\* case "undo"
CmdUndo ==
    /\ Handling(nUndo)
    /\ branch' = "undo"
    /\ IF undo_int_raises(cmd_args(cmd))
       THEN /\ Store(LogUndo(messages, 1), <<QuietUndo>>)
            /\ Fail("ValueError")
       ELSE /\ Store(LogUndo(LogUndo(messages, 1), undo_count(cmd_args(cmd))),
                     <<QuietUndo, Ev("undo", undo_count(cmd_args(cmd)), FALSE)>>)
            /\ GoOn("handle_end", <<>>)
    /\ UNCHANGED <<handlerFrame, conv, replayed>>

\* case "exit": the import of sys in case "reload" makes the name local to
\* handle_cmd, so sys.exit(0) raises UnboundLocalError and no exit is requested
CmdExit ==
    /\ Handling(nExit)
    /\ branch' = "exit"
    /\ Store(LogUndo(messages, 1), <<QuietUndo, Ev("write", 0, FALSE)>>)
    /\ Fail("UnboundLocalError")
    /\ UNCHANGED <<handlerFrame, conv, replayed>>

\* case "profile"
CmdProfile ==
    /\ Handling(nProfile)
    /\ branch' = "profile"
    /\ Store(LogUndo(messages, 1), <<QuietUndo>>)
    /\ \E found \in BOOLEAN : \E readable \in BOOLEAN :
          GoOn("handle_end",
               <<Msg("system", IF ~found THEN sNoProfile
                               ELSE IF readable THEN sProfileReport
                               ELSE sProfileError)>>)
    /\ UNCHANGED <<handlerFrame, conv, replayed>>

\* new_name in ["", "auto"]: rename generates a name and asks to confirm it
IsAutoName(name) == name \in {<<>>, sAuto}

\* a rename that does not wait for the answer of confirm and keeps the date
RenameToUnconfirmed(before, new_name, answer, collides) ==
    /\ events' = events \o before \o <<Ev("confirm", 0, answer), Ev("rename", 0, TRUE)>>
    /\ GoOn("handle_end", <<>>)
    /\ conv' = [name |-> IF IsAutoName(new_name) THEN sGenerated ELSE new_name,
                keep_date |-> TRUE]

\* rename(manager, new_name, confirm); before holds the operations handle_cmd
\* made ahead of the call, collides says whether the Log Store finds the name
\* taken, answer is what confirm returns
RenameTo(before, new_name, answer, collides) ==
    IF IsAutoName(new_name)
    THEN IF ~answer
         THEN /\ events' = events \o before \o <<Ev("confirm", 0, FALSE)>>
              /\ GoOn("handle_end", <<>>)
              /\ UNCHANGED conv
         ELSE IF collides
         THEN /\ events' = events \o before \o <<Ev("confirm", 0, TRUE)>>
              /\ Fail("AlreadyExists")
              /\ UNCHANGED conv
         ELSE /\ events' = events \o before
                               \o <<Ev("confirm", 0, TRUE), Ev("rename", 0, TRUE)>>
              /\ GoOn("handle_end", <<>>)
              /\ conv' = [name |-> sGenerated, keep_date |-> TRUE]
    ELSE IF collides
         THEN /\ events' = events \o before
              /\ Fail("AlreadyExists")
              /\ UNCHANGED conv
         ELSE /\ events' = events \o before \o <<Ev("rename", 0, FALSE)>>
              /\ GoOn("handle_end", <<>>)
              /\ conv' = [name |-> new_name, keep_date |-> FALSE]

\* case "rename": the name is args[0], or what the user types at the prompt,
\* stripped; the input event tells whether the typed name asks for a
\* generated one
CmdRename ==
    /\ Handling(nRename)
    /\ branch' = "rename"
    /\ messages' = LogUndo(messages, 1)
    /\ logfile' = LogUndo(messages, 1)
    /\ \E typed \in TypedNames : \E answer \in BOOLEAN : \E collides \in BOOLEAN :
          IF cmd_args(cmd) # <<>>
          THEN RenameTo(<<QuietUndo, Ev("write", 0, FALSE)>>,
                        cmd_args(cmd)[1], answer, collides)
          ELSE RenameTo(<<QuietUndo, Ev("write", 0, FALSE),
                          Ev("input", 0, IsAutoName(Strip(typed)))>>,
                        Strip(typed), answer, collides)
    /\ UNCHANGED <<handlerFrame, replayed>>

\* case "fork": the trigger is not retracted
CmdFork ==
    /\ Handling(nFork)
    /\ branch' = "fork"
    /\ \E collides \in BOOLEAN :
          IF collides
          THEN Fail("AlreadyExists") /\ UNCHANGED events
          ELSE GoOn("handle_end", <<>>) /\ events' = Append(events, Ev("fork", 0, FALSE))
    /\ UNCHANGED <<messages, logfile, handlerFrame, conv, replayed>>

\* case "summarize": the trigger is not retracted
CmdSummarize ==
    /\ Handling(nSummarize)
    /\ branch' = "summarize"
    /\ \E answered \in BOOLEAN :
          IF answered THEN GoOn("handle_end", <<>>) ELSE Fail("LLMError")
    /\ UNCHANGED <<messages, logfile, events, handlerFrame, conv, replayed>>

\* what the user may save in the editor: the log as it is, the log without its
\* last message, or one new message; an empty result is asked for again
EditResults(log) ==
    {r \in {log, LogUndo(log, 1), <<Msg("user", sHi)>>} : r # <<>>}

\* case "edit": edit(manager) ends with manager.edit of the saved messages, or,
\* interrupted while it waits after a parse failure, yields "Interrupted"
CmdEdit ==
    /\ Handling(nEdit)
    /\ branch' = "edit"
    /\ \/ /\ Store(LogUndo(messages, 1), <<QuietUndo>>)
          /\ GoOn("handle_end", <<Msg("system", sInterrupted)>>)
          /\ UNCHANGED edited
       \/ \E r \in EditResults(LogUndo(messages, 1)) :
             /\ Store(r, <<QuietUndo, Ev("edit", 0, FALSE)>>)
             /\ edited' = <<r>>
             /\ GoOn("handle_end", <<>>)
    /\ UNCHANGED <<backup, caller, calls, cleanVars, cmd, pre, conv, replayed>>

\* the Python indices of all the messages of a log from k on, in order
AllIndices(log, k) == [n \in 1..(Len(log) - k) |-> k + n - 1]

\* the Python indices of the assistant messages of a log from k on, in order
RECURSIVE AssistantIndices(_, _)
AssistantIndices(log, k) ==
    IF ~(k < Len(log)) THEN <<>>
    ELSE (IF log[k + 1].role = "assistant" THEN <<k>> ELSE <<>>)
         \o AssistantIndices(log, k + 1)

\* case "replay": execute_msg on every assistant message, its replies printed;
\* a tool that raises ends the loop at that message
CmdReplay ==
    /\ Handling(nReplay)
    /\ branch' = "replay"
    /\ Store(LogUndo(messages, 1), <<QuietUndo, Ev("write", 0, FALSE)>>)
    /\ LET todo == AssistantIndices(LogUndo(messages, 1), 0)
       IN  \E done \in 0..Len(todo) :
              /\ replayed' = SubSeq(todo, 1, done)
              /\ IF done = Len(todo) THEN GoOn("handle_end", <<>>) ELSE Fail("ToolError")
    /\ UNCHANGED <<handlerFrame, conv>>

\* case "impersonate" up to its first yield: the trigger is not retracted
CmdImpersonate ==
    /\ Handling(nImpersonate)
    /\ branch' = "impersonate"
    /\ \E typed \in TypedNames :
          GoOn("impersonate_exec",
               <<Msg("assistant", IF full_args(cmd) # <<>> THEN full_args(cmd) ELSE typed)>>)
    /\ UNCHANGED <<messages, logfile, events, handlerFrame, conv, replayed>>

\* yield from execute_msg(msg, confirm=lambda _: True): no reply, a reply, or
\* the tool raises
CmdImpersonateExec ==
    /\ pc = "impersonate_exec"
    /\ yielded = <<>>
    /\ \E reply \in {"none", "message", "raise"} :
          IF reply = "raise" THEN Fail("ToolError")
          ELSE GoOn("handle_end",
                    IF reply = "message" THEN <<Msg("system", sStdoutHi)>> ELSE <<>>)
    /\ UNCHANGED <<messages, logfile, events, handlerFrame, branch, conv, replayed>>

\* case "export": the import of Path in case "profile" makes the name local
\* to handle_cmd, so Path(...) here raises UnboundLocalError
CmdExport ==
    /\ Handling(nExport)
    /\ branch' = "export"
    /\ Store(LogUndo(messages, 1), <<QuietUndo, Ev("write", 0, FALSE)>>)
    /\ Fail("UnboundLocalError")
    /\ UNCHANGED <<handlerFrame, conv, replayed>>

\* case "reload" up to its first yield
CmdReload ==
    /\ Handling(nReload)
    /\ branch' = "reload"
    /\ Store(LogUndo(messages, 1), <<QuietUndo>>)
    /\ GoOn("reload_run", <<Msg("system", sReloading)>>)
    /\ UNCHANGED <<handlerFrame, conv, replayed>>

\* case "reload" from its first yield to its next one
CmdReloadRun ==
    /\ pc = "reload_run"
    /\ yielded = <<>>
    /\ \E r \in {"cleanup raises", "module fails", "reloaded", "reinit fails"} :
          CASE r = "cleanup raises" -> Fail("ToolError")
            [] r = "module fails"   -> GoOn("handle_end", <<Msg("system", sReloadError)>>)
            [] r = "reloaded"       -> GoOn("handle_end", <<Msg("system", sReloaded)>>)
            [] r = "reinit fails"   -> GoOn("reload_recover", <<Msg("system", sReinitError)>>)
    /\ UNCHANGED <<messages, logfile, events, handlerFrame, branch, conv, replayed>>

\* case "reload": the recovery with the default settings
CmdReloadRecover ==
    /\ pc = "reload_recover"
    /\ yielded = <<>>
    /\ \E recovered \in BOOLEAN :
          GoOn("handle_end",
               <<Msg("system", IF recovered THEN sRecovered ELSE sRecoverFailed)>>)
    /\ UNCHANGED <<messages, logfile, events, handlerFrame, branch, conv, replayed>>

\* case _: a loaded tool runs (it yields a message, or nothing, or raises);
\* otherwise "/help" typed alone prints the help, anything else is unknown
CmdDefault ==
    /\ pc = "handle"
    /\ cmd_name(cmd) \notin (COMMANDS \ {nHelp})
    /\ IF cmd_name(cmd) \in LoadedTools
       THEN /\ branch' = "tool"
            /\ \E reply \in {"none", "message", "raise"} :
                  IF reply = "raise" THEN Fail("ToolError")
                  ELSE GoOn("handle_end",
                            IF reply = "message" THEN <<Msg("system", sStdoutHi)>>
                            ELSE <<>>)
            /\ UNCHANGED <<messages, logfile, events>>
       ELSE IF Strip(messages[Len(messages)].content) = sSlashHelp
       THEN /\ branch' = "help"
            /\ Store(LogUndo(messages, 1), <<QuietUndo, Ev("write", 0, FALSE)>>)
            /\ GoOn("handle_end", <<>>)
       ELSE /\ branch' = "unknown"
            /\ GoOn("handle_end", <<>>)
            /\ UNCHANGED <<messages, logfile, events>>
    /\ UNCHANGED <<handlerFrame, conv, replayed>>

\* an execute_cmd that drops what handle_cmd yields instead of appending it
ExecuteCmdDrop ==
    /\ caller = "execute_cmd"
    /\ yielded # <<>>
    /\ yielded' = <<>>
    /\ UNCHANGED <<messages, logfile, events, backup, pc, caller, outcome, exc,
                   calls, cleanVars, edited, cmdVars>>

\* for resp in handle_cmd(...): log.append(resp)
ExecuteCmdAppend ==
    /\ caller = "execute_cmd"
    /\ yielded # <<>>
    /\ Store(LogAppend(messages, yielded[1]), <<Ev("append", 0, FALSE)>>)
    /\ yielded' = <<>>
    /\ UNCHANGED <<backup, pc, caller, outcome, exc, calls, cleanVars, edited, cmdVars>>

\* the generator is exhausted: return True
ExecuteCmdReturn ==
    /\ caller = "execute_cmd"
    /\ pc \in {"handle_end", "clean_end"}
    /\ yielded = <<>>
    /\ pc' = "idle"
    /\ outcome' = "returned"
    /\ UNCHANGED <<messages, logfile, backup, caller, yielded, exc, calls,
                   cleanVars, edited, events, cmdVars>>

Next ==
    \/ Dispatch
    \/ CmdProfile
    \/ CmdCleanlogs
    \/ CmdCleanlogsAll
    \/ CmdLog
    \/ CmdRename
    \/ CmdFork
    \/ CmdSummarize
    \/ CmdEdit
    \/ CmdUndo
    \/ CmdExit
    \/ CmdReplay
    \/ CmdImpersonate
    \/ CmdImpersonateExec
    \/ CmdTokens
    \/ CmdTools
    \/ CmdExport
    \/ CmdReload
    \/ CmdReloadRun
    \/ CmdReloadRecover
    \/ CmdDefault
    \/ CleanLogBegin
    \/ CleanLogStep
    \/ CleanLogFinish
    \/ ExecuteCmdAppend
    \/ ExecuteCmdReturn

Init == InitWith(SeqsUpTo(CmdPalette, MaxLenCmd))

Spec == Init /\ [][Next]_vars

InitClean == InitWith(SeqsUpTo(CleanPalette, MaxLen) \cup {ScenarioLog})

SpecClean == InitClean /\ [][NextClean]_vars

InitIdem == InitWith(SeqsUpTo(IdemPalette, MaxLenIdem))

SpecIdem == InitIdem /\ [][NextClean]_vars

InitTrunc == InitWith(SeqsUpTo(TruncPalette, MaxLenTrunc))

SpecTrunc == InitTrunc /\ [][NextClean]_vars

InitFilter == InitWith(SeqsUpTo(FilterPalette, MaxLenFilter))

SpecFilter == InitFilter /\ [][NextClean]_vars

(***************************************************************************)
(* Properties of the compaction.                                           *)
(***************************************************************************)
\* the loop has ended and manager.edit has not run yet: messages is still the
\* input and cleaned_entries is the sequence clean_log passes to edit
LoopDone == pc = "clean_loop" /\ ~(i < Len(messages))

\* the input message at Python index k is in the output as it is
Emitted(k) ==
    \E n \in 1..Len(origin) :
        origin[n] = [idx |-> k, merged |-> FALSE] /\ cleaned_entries[n] = messages[k + 1]

\* the input messages at 1-based positions a and b are user messages with the
\* same trimmed content
SameUserText(a, b) ==
    /\ messages[a].role = "user"
    /\ messages[b].role = "user"
    /\ Strip(messages[a].content) = Strip(messages[b].content)

\* C1: of the user messages with one trimmed content, wherever they stand
\* (index 0 included), the output holds the first and none of the later ones.
C1_DuplicateLaw ==
    LoopDone =>
        \A a, b \in 1..Len(messages) :
            (a < b /\ SameUserText(a, b) /\ \A c \in 1..(a - 1) : ~SameUserText(c, a))
                => Emitted(a - 1) /\ ~Emitted(b - 1)

\* C2: every pinned input message, whatever its role, is in the sequence
\* clean_log passes to edit.
C2_PinnedKept ==
    LoopDone => \A k \in 1..Len(messages) : messages[k].pinned => Emitted(k - 1)

\* C3 as the specification states it: the scenario's log compacts to
\* [system "init", user "hi", system "Command: echo hi | Output: hi"] with
\* statistics user=1, assistant=0, system=2, duplicates=1.
C3_ScenarioAsStated ==
    (LoopDone /\ messages = ScenarioLog) =>
        /\ cleaned_entries = << Msg("system", sInitText), Msg("user", sHi),
                                Msg("system", sEchoHiOutHi) >>
        /\ stats = [user |-> 1, assistant |-> 0, system |-> 2, duplicates |-> 1]

\* C3, amended: the scenario's log compacts to [system "init", user "hi",
\* system "Command: echo hi | Output: stdout: hi"] (the Output segment holds
\* the whole trimmed content of the stdout message) with statistics user=1,
\* assistant=0, system=2, duplicates=1.
C3_Scenario ==
    (LoopDone /\ messages = ScenarioLog) =>
        /\ cleaned_entries = << Msg("system", sInitText), Msg("user", sHi),
                                Msg("system", sEchoHiOutStdoutHi) >>
        /\ stats = [user |-> 1, assistant |-> 0, system |-> 2, duplicates |-> 1]

\* the scenario's log has been compacted
C3_Witness == LoopDone /\ messages = ScenarioLog /\ Len(cleaned_entries) = 3

\* C4: a second compaction, run on the sequence a first compaction produced,
\* counts no duplicate.
C4_Idempotence ==
    (calls = 2 /\ LoopDone /\ edited = <<messages>>) => stats.duplicates = 0

\* C5: clean_log on a log whose token count is 0 does not raise (it reports
\* "nothing to clean").
C5_ZeroDivisionGuard ==
    (calls > 0 /\ pc = "idle" /\ original_tokens = 0) => outcome = "returned"

\* C6: a system message at index 0 is the first message of the compacted
\* sequence, unchanged, and is counted once in the system statistic, whatever
\* its content.
C6_FirstMessage ==
    (LoopDone /\ messages # <<>> /\ messages[1].role = "system") =>
        /\ cleaned_entries # <<>>
        /\ cleaned_entries[1] = messages[1]
        /\ Cardinality({n \in 1..Len(origin) : origin[n].idx = 0}) = 1
        /\ stats.system = Cardinality({n \in 1..Len(cleaned_entries) :
                                           cleaned_entries[n].role = "system"})

\* a log whose first message is a system message that the retention filter
\* would drop has been compacted
C6_Witness ==
    /\ LoopDone
    /\ Len(messages) >= 2
    /\ messages[1].role = "system"
    /\ Contains(messages[1].content, sSuccessfully)
    /\ ~messages[1].hide /\ ~messages[1].pinned

\* s begins with p
StartsWith(s, p) == Len(p) <= Len(s) /\ SubSeq(s, 1, Len(p)) = p

\* the text after the marker "Ran command:", trimmed
CommandText(content) == Strip(SplitSecond(content, sRanCommandColon))

\* the loop is about to process, at an index >= 1, a system message that
\* passes the retention filter, holds "Ran command: X" with X not seen yet,
\* and is immediately followed by a stdout-bearing system message
MergeCase ==
    /\ pc = "clean_loop"
    /\ 1 <= i
    /\ i + 1 < Len(messages)
    /\ messages[i + 1].role = "system"
    /\ should_keep_system_message(messages[i + 1])
    /\ Contains(messages[i + 1].content, sRanCommandColon)
    /\ <<"system", CommandText(messages[i + 1].content)>> \notin seen_entries
    /\ messages[i + 2].role = "system"
    /\ Contains(messages[i + 2].content, sStdout)

\* entry, recorded with origin org, replaces the command message at Python
\* index k: "Command: X | Output: ..." with that message's flags and files
MergedFrom(entry, org, k) ==
    /\ org = [idx |-> k, merged |-> TRUE]
    /\ entry.role = "system"
    /\ StartsWith(entry.content,
                  sCommandPrefix \o CommandText(messages[k + 1].content)
                      \o sSep \o sOutputPrefix)
    /\ entry.hide = messages[k + 1].hide
    /\ entry.files = messages[k + 1].files
    /\ entry.quiet = messages[k + 1].quiet
    /\ entry.pinned = messages[k + 1].pinned

\* C7: in the merge case the iteration appends exactly one system message,
\* "Command: X | Output: ..." with the command message's hide, files, quiet
\* and pinned, and moves past the stdout-bearing message; and no output entry
\* other than a merged one comes from a command message that was merged or from
\* the stdout-bearing message that follows it.
C7_SystemMerge ==
    /\ [][MergeCase =>
            /\ Len(cleaned_entries') = Len(cleaned_entries) + 1
            /\ SubSeq(cleaned_entries', 1, Len(cleaned_entries)) = cleaned_entries
            /\ Len(origin') = Len(cleaned_entries')
            /\ MergedFrom(cleaned_entries'[Len(cleaned_entries')],
                          origin'[Len(origin')], i)
            /\ i' >= i + 2]_vars
    /\ [](pc = "clean_loop" =>
            \A n \in 1..Len(origin) :
                (/\ origin[n].merged
                 /\ origin[n].idx + 1 < Len(messages)
                 /\ messages[origin[n].idx + 2].role = "system"
                 /\ Contains(messages[origin[n].idx + 2].content, sStdout))
                => \A m \in 1..Len(origin) :
                       m # n => origin[m].idx \notin {origin[n].idx, origin[n].idx + 1})

\* a command message with hide, quiet and a file, followed by its output, has
\* been merged at an index >= 1 and the loop has ended
C7_Witness ==
    /\ LoopDone
    /\ \E n \in 1..Len(origin) :
          /\ origin[n].merged
          /\ origin[n].idx >= 1
          /\ origin[n].idx + 1 < Len(messages)
          /\ messages[origin[n].idx + 1].hide
          /\ messages[origin[n].idx + 1].files # <<>>
          /\ messages[origin[n].idx + 2].role = "system"
          /\ Contains(messages[origin[n].idx + 2].content, sStdout)
          /\ Contains(cleaned_entries[n].content, sSep \o sOutputPrefix)

\* seg is one of the " | "-joined segments of text after the first
HasSegment(text, seg) ==
    \E q \in {x \in 1..(Len(text) - Len(sSep) - Len(seg) + 1) :
                  text[x] = sSep[1] /\ text[x + 1] = sSep[2]} :
        /\ SubSeq(text, q, q + Len(sSep) + Len(seg) - 1) = sSep \o seg
        /\ LET e == q + Len(sSep) + Len(seg) - 1
           IN  e = Len(text) \/ SubSeq(text, e + 1, e + Len(sSep)) = sSep

\* the message at Python index p was absorbed as an output by the merge of the
\* command message at Python index k
AbsorbedOutput(k, p) ==
    /\ k < p
    /\ p < Len(messages)
    /\ \A x \in (k + 1)..p :
          /\ messages[x + 1].role = "system"
          /\ Contains(messages[x + 1].content, sStdout)
             \/ Contains(messages[x + 1].content, sStderr)
    /\ Contains(messages[p + 1].content, sStdout)

\* C8 as the specification states it: an absorbed stdout-bearing message whose
\* content is longer than 500 characters gives an Output segment that is the
\* first 500 characters of that content followed by "... (truncated)".
C8_TruncationAsStated ==
    pc = "clean_loop" =>
        \A n \in 1..Len(origin) : \A p \in 1..(Len(messages) - 1) :
            (/\ origin[n].merged
             /\ AbsorbedOutput(origin[n].idx, p)
             /\ Len(messages[p + 1].content) > 500)
            => HasSegment(cleaned_entries[n].content,
                          sOutputPrefix \o SubSeq(messages[p + 1].content, 1, 500)
                              \o sTruncated)

\* C8, amended: an absorbed stdout-bearing message whose trimmed content is
\* longer than 500 characters gives an Output segment that is the first 500
\* characters of the trimmed content followed by "... (truncated)".
C8_Truncation ==
    pc = "clean_loop" =>
        \A n \in 1..Len(origin) : \A p \in 1..(Len(messages) - 1) :
            (/\ origin[n].merged
             /\ AbsorbedOutput(origin[n].idx, p)
             /\ Len(Strip(messages[p + 1].content)) > 500)
            => HasSegment(cleaned_entries[n].content,
                          sOutputPrefix \o SubSeq(Strip(messages[p + 1].content), 1, 500)
                              \o sTruncated)

\* an output of more than 500 characters after trimming, with leading
\* whitespace, has been absorbed and the loop has ended
C8_Witness ==
    /\ LoopDone
    /\ \E n \in 1..Len(origin) : \E p \in 1..(Len(messages) - 1) :
          /\ origin[n].merged
          /\ AbsorbedOutput(origin[n].idx, p)
          /\ Len(Strip(messages[p + 1].content)) > 500
          /\ messages[p + 1].content[1] \in Whitespace
          /\ Contains(cleaned_entries[n].content, sTruncated)

\* the drop rule of the retention filter: hide and pinned unset, no "Error:",
\* and "Successfully", or "No output", or "Executed command" in a content of
\* fewer than 50 characters
FilterDrops(msg) ==
    /\ ~msg.hide
    /\ ~msg.pinned
    /\ ~Contains(msg.content, <<"E","r","r","o","r",":">>)
    /\ \/ Contains(msg.content, <<"S","u","c","c","e","s","s","f","u","l","l","y">>)
       \/ Contains(msg.content, <<"N","o"," ","o","u","t","p","u","t">>)
       \/ /\ Contains(msg.content, <<"E","x","e","c","u","t","e","d"," ",
                                     "c","o","m","m","a","n","d">>)
          /\ Len(msg.content) < 50

\* the loop is at a system message (those absorbed into a merge are jumped
\* over, so it is not one of them) and the iteration does not raise
SystemStep ==
    /\ pc = "clean_loop"
    /\ i < Len(messages)
    /\ messages[i + 1].role = "system"
    /\ pc' = "clean_loop"

\* the iteration emits an entry for the message at i
EmitsCurrent ==
    /\ Len(cleaned_entries') = Len(cleaned_entries) + 1
    /\ origin'[Len(origin')].idx = i

C18_NonCommandKept ==
    [][(/\ pc = "clean_loop"
        /\ i < Len(messages)
        /\ messages[i + 1].role = "system"
        /\ ~FilterDrops(messages[i + 1])
        /\ ~Contains(messages[i + 1].content, sRanCommandColon))
         => /\ pc' = "clean_loop"
            /\ outcome' # "raised"
            /\ cleaned_entries' = Append(cleaned_entries, messages[i + 1])
    ]_vars

\* C20: the compacted sequence preserves input order.  With each output
\* message mapped to the input index it came from (a merged message to its
\* triggering command message), the indices are strictly increasing along
\* the output, every output message that is not merged is the input message
\* at its index, and a merged one is built from the command message there.
C20_OrderStability ==
    pc = "clean_loop" =>
        /\ Len(origin) = Len(cleaned_entries)
        /\ \A a, b \in 1..Len(origin) : a < b => origin[a].idx < origin[b].idx
        /\ \A n \in 1..Len(origin) :
              /\ origin[n].idx < Len(messages)
              /\ ~origin[n].merged => cleaned_entries[n] = messages[origin[n].idx + 1]
              /\ origin[n].merged =>
                    /\ messages[origin[n].idx + 1].role = "system"
                    /\ StartsWith(cleaned_entries[n].content,
                                  sCommandPrefix
                                    \o CommandText(messages[origin[n].idx + 1].content))

\* the loop has ended with an output of at least three messages, one of them
\* merged and one not, on a log from which messages were dropped
C20_Witness ==
    /\ LoopDone
    /\ Len(cleaned_entries) >= 3
    /\ Len(cleaned_entries) < Len(messages)
    /\ \E n \in 1..Len(origin) : origin[n].merged
    /\ \E n \in 2..Len(origin) : ~origin[n].merged

\* the lookahead scan takes the message in: a system message whose content
\* contains "stdout" or "stderr"
Absorbable(msg) ==
    /\ msg.role = "system"
    /\ \/ Contains(msg.content, <<"s","t","d","o","u","t">>)
       \/ Contains(msg.content, <<"s","t","d","e","r","r">>)

\* the outcomes the iteration gives the message at i: retained (an entry is
\* emitted for it), counted as a duplicate, dropped by the filter
StepOutcomes ==
    (IF EmitsCurrent /\ stats'.duplicates = stats.duplicates
        THEN {"retained"} ELSE {})
    \cup (IF cleaned_entries' = cleaned_entries
              /\ stats' = [stats EXCEPT !.duplicates = @ + 1]
           THEN {"duplicate"} ELSE {})
    \cup (IF cleaned_entries' = cleaned_entries /\ stats' = stats
              /\ messages[i + 1].role = "system" /\ FilterDrops(messages[i + 1])
           THEN {"filtered"} ELSE {})

\* C21: the loop terminates and visits each message at index >= 1 exactly
\* once, giving it exactly one outcome.  Every iteration goes on to a greater
\* index within the log, without raising; the message at i is retained,
\* dropped by the filter or counted as a duplicate, one of the three; the
\* indices jumped over are those a merge absorbed, contiguous system messages
\* with "stdout" or "stderr"; and the scan stops at the index the loop visits
\* next, a message the scan does not take in.
C21_LoopVisitsOnce ==
    [][(pc = "clean_loop" /\ i < Len(messages)) =>
         /\ pc' = "clean_loop"
         /\ i < i'
         /\ i' <= Len(messages)
         /\ Cardinality(StepOutcomes) = 1
         /\ i' > i + 1 => (EmitsCurrent /\ origin'[Len(origin')].merged)
         /\ \A k \in (i + 1)..(i' - 1) : Absorbable(messages[k + 1])
         /\ (EmitsCurrent /\ origin'[Len(origin')].merged /\ i' < Len(messages))
               => ~Absorbable(messages[i' + 1])
    ]_vars

(***************************************************************************)
(* Properties of the dispatcher.                                           *)
(***************************************************************************)
\* C9: for every command other than exit, a failure raised while the command
\* is handled does not leave execute_cmd.
C9_FailureContained ==
    (caller = "execute_cmd" /\ cmd_name(cmd) # nExit) => outcome # "raised"

\* the position in events of the last entry with the given operation, 0 when
\* there is none
LastEvent(op) ==
    LET at == {k \in 1..Len(events) : events[k].op = op}
    IN  IF at = {} THEN 0 ELSE CHOOSE k \in at : \A h \in at : h <= k

\* /cleanlogs, dispatched through execute_cmd, has just written its backup:
\* the loop of clean_log is running and manager.edit has not run yet
BackupTaken == caller = "execute_cmd" /\ branch = "cleanlogs" /\ pc = "clean_loop"

\* C10 as stated: the backup of /cleanlogs is written before the command
\* appends or replaces anything, so it holds the persisted log as it stood
\* once the trigger was retracted.
C10_BackupAsStated ==
    BackupTaken =>
        /\ backup = <<pre>>
        /\ LastEvent("backup") = LastEvent("undo") + 1

\* C10, amended: the backup of /cleanlogs is written before manager.edit
\* replaces the log and before the announcement is appended, but after the
\* notice "Cleaning current conversation log..." has been appended: it holds
\* the persisted log as it stood once the trigger was retracted, followed by
\* that notice.
C10_Backup ==
    BackupTaken =>
        /\ backup = <<Append(pre, Msg("system", sCleaningCurrent))>>
        /\ messages = Append(pre, Msg("system", sCleaningCurrent))
        /\ LastEvent("backup") = Len(events)
        /\ LastEvent("append") = Len(events) - 1
        /\ LastEvent("undo") = Len(events) - 2
        /\ LastEvent("edit") < LastEvent("undo")

\* /cleanlogs on a log that held messages has written its backup
C10_Witness == BackupTaken /\ pre # <<>> /\ backup # <<>>

\* /cleanlogs on the current log, dispatched through execute_cmd, has returned
CleanlogsDone ==
    /\ caller = "execute_cmd" /\ branch = "cleanlogs"
    /\ ~InArgs(sAllFlag, cmd_args(cmd))
    /\ pc = "idle" /\ outcome = "returned"

\* clean_log, run by /cleanlogs, stands at its yield of the announcement
AnnouncementYielded ==
    caller = "execute_cmd" /\ branch = "cleanlogs" /\ pc = "clean_end" /\ yielded # <<>>

\* C11: in every completed run of /cleanlogs on the current log, the message
\* announcing the token reduction is appended strictly after manager.edit has
\* committed the compacted sequence: when it is yielded, edit is the last
\* operation and the log is the committed sequence; when the command has
\* returned, the log is the committed sequence followed by the announcement,
\* which is its last message, and the append is the last operation.
C11_AnnouncementAfterCommit ==
    /\ AnnouncementYielded =>
          /\ edited # <<>>
          /\ messages = edited[1]
          /\ logfile = edited[1]
          /\ LastEvent("edit") = Len(events)
          /\ StartsWith(yielded[1].content, sCleanedPrefix)
    /\ CleanlogsDone =>
          /\ edited # <<>>
          /\ Len(messages) = Len(edited[1]) + 1
          /\ SubSeq(messages, 1, Len(edited[1])) = edited[1]
          /\ messages[Len(messages)].role = "system"
          /\ StartsWith(messages[Len(messages)].content, sCleanedPrefix)
          /\ logfile = messages
          /\ LastEvent("append") = Len(events)
          /\ LastEvent("edit") = Len(events) - 1

\* /cleanlogs has returned on a log from which the compaction removed messages
C11_Witness ==
    /\ CleanlogsDone
    /\ edited # <<>>
    /\ Len(edited[1]) > 0
    /\ Len(edited[1]) < Len(pre) + 1

\* /undo, dispatched through execute_cmd, has ended, one way or the other
UndoDone == caller = "execute_cmd" /\ branch = "undo" /\ pc = "idle"

\* the count /undo is to retract: the value of its first argument when that
\* is a decimal integer, 1 when it is absent or anything else
UndoArgValue ==
    IF cmd_args(cmd) # <<>> /\ IsDecimal(cmd_args(cmd)[1])
    THEN ParseInt(cmd_args(cmd)[1]) ELSE 1

\* C12: "/undo <arg>" retracts its trigger with a quiet undo of 1 and then
\* retracts n further messages, n being the value of <arg> when it is a
\* non-negative decimal integer and 1 when it is absent or malformed; it
\* never fails on a malformed argument and yields no message.
C12_UndoCommand ==
    UndoDone =>
        /\ outcome = "returned"
        /\ messages = LogUndo(pre, UndoArgValue)
        /\ logfile = messages
        /\ Len(events) >= 2
        /\ events[Len(events) - 1] = QuietUndo
        /\ events[Len(events)] = Ev("undo", UndoArgValue, FALSE)

\* execute_cmd has ended on /log, /tools or /tokens, one way or the other
ReportDone ==
    caller = "execute_cmd" /\ branch \in {"log", "tools", "tokens"} /\ pc = "idle"

\* C13: after execute_cmd handles /log, /tools or /tokens, the command has
\* reported and returned, the log is the sequence as it was before the trigger
\* was appended, and the handler has retracted the trigger and yielded no
\* message: the quiet undo is the only operation after the trigger's append.
C13_ReadOnlyReporting ==
    ReportDone =>
        /\ outcome = "returned"
        /\ messages = pre
        /\ logfile = pre
        /\ Len(events) >= 2
        /\ events[Len(events)] = QuietUndo
        /\ events[Len(events) - 1] = Ev("append", 0, FALSE)

\* execute_cmd has ended on /replay, one way or the other
ReplayDone == caller = "execute_cmd" /\ branch = "replay" /\ pc = "idle"

\* the log is as it was before the trigger was appended, and since that
\* append the Log Store saw the quiet undo and the write only
ReplayFrame ==
    /\ messages = pre
    /\ logfile = pre
    /\ Len(events) >= 3
    /\ SubSeq(events, Len(events) - 2, Len(events))
         = <<Ev("append", 0, FALSE), QuietUndo, Ev("write", 0, FALSE)>>

\* the executed messages are assistant messages, each once, in log order
ReplayedInOrder ==
    /\ \A a, b \in 1..Len(replayed) : a < b => replayed[a] < replayed[b]
    /\ \A a \in 1..Len(replayed) :
          replayed[a] < Len(pre) /\ pre[replayed[a] + 1].role = "assistant"

\* every assistant message of the log was executed
ReplayedAll ==
    \A k \in 0..(Len(pre) - 1) :
        pre[k + 1].role = "assistant" => \E a \in 1..Len(replayed) : replayed[a] = k

RenameAsksAuto(evs) ==
    IF cmd_args(cmd) # <<>> THEN IsAutoName(cmd_args(cmd)[1])
    ELSE \E k \in 1..Len(evs) : evs[k].op = "input" /\ evs[k].flag

\* C15: when /rename is given an empty or "auto" name, the Log Store rename
\* is performed only right after confirm has returned true, and with
\* keep_date set; if confirm returns false no rename is performed and the
\* conversation's identity is unchanged.  With any other name confirm is not
\* asked and a rename, when performed, has keep_date unset.  The identity
\* changes only by a rename.
C15_RenameConfirmation ==
    [][Handling(nRename) =>
         LET evs == SubSeq(events', Len(events) + 1, Len(events'))
             renames == {k \in 1..Len(evs) : evs[k].op = "rename"}
             confirms == {k \in 1..Len(evs) : evs[k].op = "confirm"}
         IN  /\ RenameAsksAuto(evs) =>
                   /\ confirms # {}
                   /\ \A k \in renames :
                         k > 1 /\ evs[k - 1] = Ev("confirm", 0, TRUE) /\ evs[k].flag
                   /\ (\E k \in confirms : ~evs[k].flag) => (renames = {} /\ conv' = conv)
                   /\ renames # {} => conv' = [name |-> sGenerated, keep_date |-> TRUE]
             /\ ~RenameAsksAuto(evs) =>
                   /\ confirms = {}
                   /\ \A k \in renames : ~evs[k].flag
                   /\ renames # {} => (~conv'.keep_date /\ ~IsAutoName(conv'.name))
                   /\ (renames # {} \/ (outcome' = "raised" /\ exc' = "AlreadyExists"))
             /\ renames = {} => conv' = conv
             /\ Cardinality(renames) <= 1
    ]_vars

\* /rename with an empty or "auto" name has renamed the conversation to the
\* generated name, keeping the date
C15_Witness ==
    /\ caller = "execute_cmd" /\ branch = "rename" /\ outcome = "returned"
    /\ conv = [name |-> sGenerated, keep_date |-> TRUE]
    /\ LastEvent("confirm") = LastEvent("rename") - 1

\* execute_cmd has ended on /exit, one way or the other
ExitDone == caller = "execute_cmd" /\ branch = "exit" /\ pc = "idle"

\* C16: among the commands of handle_cmd only /exit terminates the process,
\* and every execution of /exit ends with the process exit requested, after
\* the trigger has been retracted and the Log Store write() has completed.
C16_ExitOrdering ==
    /\ outcome = "exited" => branch = "exit"
    /\ ExitDone =>
          /\ outcome = "exited"
          /\ messages = pre
          /\ Len(events) >= 2
          /\ events[Len(events) - 1] = QuietUndo
          /\ events[Len(events)] = Ev("write", 0, FALSE)

\* the case of handle_cmd's match that belongs to a command name
BuiltinBranch(n) ==
    CASE n = nUndo -> "undo"
      [] n = nLog -> "log"
      [] n = nTools -> "tools"
      [] n = nEdit -> "edit"
      [] n = nRename -> "rename"
      [] n = nFork -> "fork"
      [] n = nSummarize -> "summarize"
      [] n = nReplay -> "replay"
      [] n = nImpersonate -> "impersonate"
      [] n = nTokens -> "tokens"
      [] n = nExport -> "export"
      [] n = nHelp -> "help"
      [] n = nExit -> "exit"
      [] n = nReload -> "reload"
      [] n = nCleanlogs -> "cleanlogs"
      [] n = nProfile -> "profile"

\* handle_cmd has chosen a case for the text execute_cmd gave it
CaseChosen == caller = "execute_cmd" /\ branch \notin {"none", "not_command"}

\* C19: for every name of the fixed command set, with or without trailing
\* arguments, handle_cmd runs that command's own case; the "Unknown command"
\* outcome is reached only for a name outside the set that no tool handler
\* recognizes.
C19_FixedCommandSet ==
    CaseChosen =>
        /\ cmd_name(cmd) \in COMMANDS => branch = BuiltinBranch(cmd_name(cmd))
        /\ branch = "unknown" =>
              (cmd_name(cmd) \notin COMMANDS /\ cmd_name(cmd) \notin LoadedTools)

====
